---- MODULE Spec2Model ----
(***************************************************************************)
(* A model of brand-yml's validation of a brand document: the colour       *)
(* namespace (palette and theme slots), the typography colours, the        *)
(* monospace cascade, and the font declarations with their import URLs.    *)
(*                                                                         *)
(* Python values are modelled as follows.  An Optional[str] is a string,   *)
(* with None the reserved string None.  A dict[str, str] is a function     *)
(* whose DOMAIN is its key set.  The order in which a dict is walked is    *)
(* its insertion order, which the document decides: the model lets each    *)
(* walk take the keys in any order.                                        *)
(***************************************************************************)
EXTENDS Integers, Sequences, FiniteSets, TLC

VARIABLES
    pc,          \* position of the validation in progress
    err,         \* the error validation ended with (kind, place), or NoError
    doc,         \* the document as authored (what the caller passed in)
    palette,     \* BrandColor.palette: [none |-> BOOLEAN, d |-> dict]
    todo,        \* palette keys the in-place resolution has not reached yet
    theme,       \* BrandColor's theme slots: [ThemeSlots -> string or None]
    typography,  \* BrandTypography: [none |-> BOOLEAN, groups |-> the groups]
    font         \* a font declaration and what was derived from it

vars == <<pc, err, doc, palette, todo, theme, typography, font>>

None == "None"

\* What a failed validation raises: the kinds of the errors in it (pydantic
\* collects the ValueErrors of a model's fields into one validation error)
\* and the place (field or validator) that raised.
Errors(kinds, loc) == [kinds |-> kinds, loc |-> loc]

Error(kind, loc) == Errors({kind}, loc)

NoError == Errors({}, "")

\* The kinds that are ValueErrors; pydantic lets any other exception through
\* as it is raised.
ValueErrorKinds ==
    {"CircularReferenceError", "UndefinedThemeReferenceError",
     "InvalidFontWeightError", "UnsupportedFontSourceError",
     "UnsupportedFontFileFormatError"}

(***************************************************************************)
(* Bounds of the model.                                                    *)
(***************************************************************************)
MaxPaletteKeys == 3

AllPaletteNames == <<"purple", "blue", "primary", "red">>

PaletteNames ==
    {AllPaletteNames[i] : i \in 1..(IF MaxPaletteKeys < 4 THEN MaxPaletteKeys ELSE 4)}

Literals == {"#6339E0"}

\* Theme slots a drawn document may set; the others stay None.
AuthoredSlots == {"primary", "secondary"}

(***************************************************************************)
(* color.py: the fields of BrandColor.                                     *)
(***************************************************************************)
ThemeSlots ==
    <<"foreground", "background", "primary", "secondary", "tertiary",
      "success", "info", "warning", "danger", "light", "dark">>

ThemeSlotSet == {ThemeSlots[i] : i \in 1..Len(ThemeSlots)}

EmptyDict == [k \in {} |-> None]

EmptyTheme == [s \in ThemeSlotSet |-> None]

(***************************************************************************)
(* _defs.py is not part of the sources at hand; check_circular_references  *)
(* and defs_replace_recursively are modelled from the specification        *)
(* (sections 4.1 and 4.2).                                                 *)
(***************************************************************************)

\* Depth-first walk from key k; path holds the keys in progress.  An edge
\* k -> d[k] exists iff d[k] is a key of d.
RECURSIVE Visit(_, _, _)
Visit(d, k, path) ==
    IF k \in path THEN TRUE
    ELSE IF d[k] \notin DOMAIN d THEN FALSE
    ELSE Visit(d, d[k], path \cup {k})

\* TRUE iff a circular reference is reported.
check_circular_references(d) == \E k \in DOMAIN d : Visit(d, k, {})

\* Follow defs[v] until the result is no key of defs, at most n more times.
RECURSIVE Follow(_, _, _)
Follow(defs, v, n) ==
    IF v \notin DOMAIN defs THEN [ok |-> TRUE, val |-> v]
    ELSE IF n = 0 THEN [ok |-> FALSE, val |-> v]
    ELSE Follow(defs, defs[v], n - 1)

\* The chain-resolved value of a leaf v: capped at len(defs) + 1 steps.
ResolveValue(defs, v) == Follow(defs, v, Cardinality(DOMAIN defs) + 1)

\* defs_replace_recursively on the model itself (a record's slots walked in
\* field order, "palette" excluded): the slots rewritten so far, and
\* whether the cap was reached.
RECURSIVE ReplaceSlots(_, _, _)
ReplaceSlots(t, defs, i) ==
    IF i > Len(ThemeSlots) THEN [ok |-> TRUE, t |-> t]
    ELSE LET s == ThemeSlots[i]
             r == ResolveValue(defs, t[s])
         IN  IF t[s] = None \/ t[s] \notin DOMAIN defs
             THEN ReplaceSlots(t, defs, i + 1)
             ELSE IF ~r.ok THEN [ok |-> FALSE, t |-> t]
             ELSE ReplaceSlots([t EXCEPT ![s] = r.val], defs, i + 1)

\* defs_replace_recursively(defs, defs): a dict resolved against itself, in
\* place, key after key.
RECURSIVE ReplaceDict(_, _)
ReplaceDict(d, keys) ==
    IF keys = {} THEN [ok |-> TRUE, d |-> d]
    ELSE LET k == CHOOSE x \in keys : TRUE
             r == ResolveValue(d, d[k])
         IN  IF ~r.ok THEN [ok |-> FALSE, d |-> d]
             ELSE ReplaceDict([d EXCEPT ![k] = r.val], keys \ {k})

(***************************************************************************)
(* color.py: BrandColor._color_defs                                        *)
(***************************************************************************)
\* The flat namespace: the theme slots that are set, laid over the palette.
ColorDefsRaw(p, t) ==
    LET set == {s \in ThemeSlotSet : t[s] # None}
        base == IF p.none THEN EmptyDict ELSE p.d
    IN  [k \in (DOMAIN base) \cup set |-> IF k \in set THEN t[k] ELSE base[k]]

_color_defs(p, t, resolved) ==
    LET defs == ColorDefsRaw(p, t)
    IN  IF resolved THEN ReplaceDict(defs, DOMAIN defs)
        ELSE [ok |-> TRUE, d |-> defs]

(***************************************************************************)
(* color.py: the validation of a BrandColor                                *)
(***************************************************************************)
\* What follows the validation of the colour record.
AfterColor == IF doc.root = "BrandColor" THEN "done" ELSE "typography"

\* PaletteCheck with the call of check_circular_references left out.
PaletteCheck_NoCycleCheck ==
    /\ pc = "palette"
    /\ IF palette.none
       THEN /\ pc' = "color_model"
            /\ UNCHANGED <<err, todo>>
       ELSE /\ pc' = "palette_resolve"
            /\ todo' = DOMAIN palette.d
            /\ UNCHANGED err
    /\ UNCHANGED <<doc, palette, theme, typography, font>>

\* PaletteCheck with the two calls exchanged: the references of the palette
\* are replaced, one step each, before the circular references are looked
\* for.
PaletteCheck_ResolveFirst ==
    /\ pc = "palette"
    /\ IF palette.none
       THEN /\ pc' = "color_model"
            /\ UNCHANGED <<err, todo, palette>>
       ELSE /\ palette' =
                  [palette EXCEPT !.d =
                      [k \in DOMAIN palette.d |->
                          IF palette.d[k] \in DOMAIN palette.d
                          THEN palette.d[palette.d[k]] ELSE palette.d[k]]]
            /\ IF check_circular_references(palette.d)
               THEN /\ pc' = "failed"
                    /\ err' = Error("CircularReferenceError", "palette")
                    /\ UNCHANGED todo
               ELSE /\ pc' = "palette_resolve"
                    /\ todo' = DOMAIN palette.d
                    /\ UNCHANGED err
    /\ UNCHANGED <<doc, theme, typography, font>>

\* _create_brand_palette, first half: None is returned as is; otherwise the
\* circular references are looked for before anything is rewritten.
PaletteCheck ==
    /\ pc = "palette"
    /\ IF palette.none
       THEN /\ pc' = "color_model"
            /\ UNCHANGED <<err, todo>>
       ELSE IF check_circular_references(palette.d)
       THEN /\ pc' = "failed"
            /\ err' = Error("CircularReferenceError", "palette")
            /\ UNCHANGED todo
       ELSE /\ pc' = "palette_resolve"
            /\ todo' = DOMAIN palette.d
            /\ UNCHANGED err
    /\ UNCHANGED <<doc, palette, theme, typography, font>>

\* PaletteResolveKey with the call of defs_replace_recursively left out: the
\* palette is returned as authored.
PaletteResolveKey_NoReplace ==
    /\ pc = "palette_resolve"
    /\ todo # {}
    /\ \E k \in todo : todo' = todo \ {k}
    /\ UNCHANGED <<pc, err, doc, palette, theme, typography, font>>

\* _create_brand_palette, second half: defs_replace_recursively(value,
\* value), which rewrites the palette in place, one key at a time.
PaletteResolveKey ==
    /\ pc = "palette_resolve"
    /\ todo # {}
    /\ \E k \in todo :
         LET r == ResolveValue(palette.d, palette.d[k])
         IN  IF r.ok
             THEN /\ palette' = [palette EXCEPT !.d[k] = r.val]
                  /\ todo' = todo \ {k}
                  /\ UNCHANGED <<pc, err>>
             ELSE /\ pc' = "failed"
                  /\ err' = Error("InternalFault", "palette")
                  /\ UNCHANGED <<palette, todo>>
    /\ UNCHANGED <<doc, theme, typography, font>>

PaletteReturn ==
    /\ pc = "palette_resolve"
    /\ todo = {}
    /\ pc' = "color_model"
    /\ UNCHANGED <<err, doc, palette, todo, theme, typography, font>>

\* resolve_palette_values with the palette alone as the definitions, the
\* theme slots not laid over it.
resolve_palette_values_PaletteDefs ==
    /\ pc = "color_model"
    /\ LET r == ReplaceSlots(theme, IF palette.none THEN EmptyDict ELSE palette.d, 1)
       IN  /\ theme' = r.t
           /\ IF r.ok
              THEN pc' = AfterColor /\ UNCHANGED err
              ELSE pc' = "failed" /\ err' = Error("InternalFault", "color")
    /\ UNCHANGED <<doc, palette, todo, typography, font>>

\* resolve_palette_values with the outcome of the resolution not looked
\* at: a chain that was cut short is taken as resolved.
resolve_palette_values_IgnoreFault ==
    /\ pc = "color_model"
    /\ theme' = ReplaceSlots(theme, _color_defs(palette, theme, FALSE).d, 1).t
    /\ pc' = AfterColor
    /\ UNCHANGED <<err, doc, palette, todo, typography, font>>

\* resolve_palette_values: the theme slots are rewritten against the raw
\* namespace; the palette field is excluded.
resolve_palette_values ==
    /\ pc = "color_model"
    /\ LET r == ReplaceSlots(theme, _color_defs(palette, theme, FALSE).d, 1)
       IN  /\ theme' = r.t
           /\ IF r.ok
              THEN pc' = AfterColor /\ UNCHANGED err
              ELSE pc' = "failed" /\ err' = Error("InternalFault", "color")
    /\ UNCHANGED <<doc, palette, todo, typography, font>>

(***************************************************************************)
(* Python values of more than one type: a str, an int, a float (kept in    *)
(* tenths), None, and BrandNamedColor, the RootModel typography.py wraps a *)
(* colour string in.                                                       *)
(***************************************************************************)
PyStr(s) == [t |-> "str", s |-> s, n |-> 0]
PyInt(n) == [t |-> "int", s |-> "", n |-> n]
PyFloat(tenths) == [t |-> "float", s |-> "", n |-> tenths]
NoneVal == [t |-> "NoneType", s |-> "", n |-> 0]
BrandNamedColor(root) == [t |-> "BrandNamedColor", s |-> root, n |-> 0]

isinstance_str(v) == v.t = "str"

(***************************************************************************)
(* typography.py: the groups of BrandTypography, in field order.  Of a     *)
(* group the model keeps the fields the cascade and the colour resolution  *)
(* read or write; a field the group's class does not declare stays None.   *)
(***************************************************************************)
GroupNames ==
    <<"base", "headings", "monospace", "monospace_inline", "monospace_block", "link">>

GroupSet == {GroupNames[i] : i \in 1..Len(GroupNames)}

GroupFields == {"family", "style", "weight", "size", "color", "background_color"}

\* BrandTypographyMonospace declares no colour; every other group does.
DeclaresColor(g) == g # "monospace"

NoGroup == [none |-> TRUE, f |-> [x \in GroupFields |-> NoneVal]]

NoTypography == [none |-> TRUE, groups |-> [g \in GroupSet |-> NoGroup]]

\* A field the document does not give at all (an explicit null is NoneVal).
Absent == [t |-> "absent", s |-> "", n |-> 0]

(***************************************************************************)
(* typography.py: validate_font_weight                                     *)
(***************************************************************************)
BrandTypographyFontWeightMap ==
    [w \in {"thin", "extra-light", "ultra-light", "light", "normal", "regular",
            "medium", "semi-bold", "demi-bold", "bold", "extra-bold",
            "ultra-bold", "black"} |->
        CASE w = "thin" -> 100
          [] w \in {"extra-light", "ultra-light"} -> 200
          [] w = "light" -> 300
          [] w \in {"normal", "regular"} -> 400
          [] w = "medium" -> 500
          [] w \in {"semi-bold", "demi-bold"} -> 600
          [] w = "bold" -> 700
          [] w \in {"extra-bold", "ultra-bold"} -> 800
          [] w = "black" -> 900]

\* The strings of the model that int() parses, with their values.
NumericStrings == [s \in {"400", "150"} |-> IF s = "400" THEN 400 ELSE 150]

Returned(v) == [raised |-> "none", val |-> v]
Raised(kind) == [raised |-> kind, val |-> NoneVal]

\* Python's int(value): a str is parsed, a float truncated; int(None)
\* raises TypeError and int(float("inf")) OverflowError.
int(v) ==
    CASE v.t = "int" -> Returned(v)
      [] v.t = "float" ->
            IF v.s = "inf" THEN Raised("OverflowError")
            ELSE Returned(PyInt(v.n \div 10))
      [] v.t = "str" ->
            IF v.s \in DOMAIN NumericStrings
            THEN Returned(PyInt(NumericStrings[v.s]))
            ELSE Raised("ValueError")
      [] OTHER -> Raised("TypeError")

validate_font_weight(value) ==
    IF isinstance_str(value) /\ value.s \in {"normal", "bold"} THEN Returned(value)
    ELSE IF isinstance_str(value) /\ value.s \in DOMAIN BrandTypographyFontWeightMap
    THEN Returned(PyInt(BrandTypographyFontWeightMap[value.s]))
    ELSE LET c == int(value)
         IN  IF c.raised = "ValueError" THEN Raised("InvalidFontWeightError")
             ELSE IF c.raised # "none" THEN c
             ELSE IF c.val.n < 100 \/ c.val.n > 900 \/ c.val.n % 100 # 0
             THEN Raised("InvalidFontWeightError")
             ELSE c

(***************************************************************************)
(* typography.py: the validation of a BrandTypography                      *)
(***************************************************************************)
\* ValidateField with the colour fields declared str: a colour string is
\* kept as the str it is.
ValidateField_PlainColor(x, v) ==
    IF v = Absent THEN Returned(NoneVal)
    ELSE IF x = "weight" THEN validate_font_weight(v)
    ELSE Returned(v)

\* The validation of one field of a group: the weight goes through
\* validate_font_weight (BrandTypographyOptionsWeight.validate_weight, which
\* runs when the document gives the field), a colour string is wrapped in
\* BrandNamedColor, a field not given takes its default, None.
ValidateField(x, v) ==
    IF v = Absent THEN Returned(NoneVal)
    ELSE IF x = "weight" THEN validate_font_weight(v)
    ELSE IF x \in {"color", "background_color"} /\ isinstance_str(v)
    THEN Returned(BrandNamedColor(v.s))
    ELSE Returned(v)

ValidGroup(g) ==
    IF g.none THEN NoGroup
    ELSE [none |-> FALSE, f |-> [x \in GroupFields |-> ValidateField(x, g.f[x]).val]]

\* The errors the fields of the groups raise.
FieldErrors(ty) ==
    {ValidateField(x, ty.groups[g].f[x]).raised :
        g \in {h \in GroupSet : ~ty.groups[h].none}, x \in GroupFields} \ {"none"}

\* pydantic collects the ValueErrors of the fields into one validation
\* error; any other exception leaves the validation as it is raised.
ValidationOutcome(errors) ==
    IF errors \subseteq ValueErrorKinds THEN errors
    ELSE {CHOOSE e \in errors : e \notin ValueErrorKinds}

CascadeFields == {"family", "style", "weight", "size"}

\* use_fallback without the test that the dependent's own value is unset.
use_fallback_Overwrite(obj, parent) ==
    IF parent.none \/ obj.none THEN obj
    ELSE [obj EXCEPT !.f =
            [x \in GroupFields |->
                IF x \in CascadeFields /\ parent.f[x] # NoneVal
                THEN parent.f[x] ELSE obj.f[x]]]

\* forward_monospace_values.use_fallback
use_fallback(obj, parent) ==
    IF parent.none \/ obj.none THEN obj
    ELSE [obj EXCEPT !.f =
            [x \in GroupFields |->
                IF x \in CascadeFields /\ parent.f[x] # NoneVal /\ obj.f[x] = NoneVal
                THEN parent.f[x] ELSE obj.f[x]]]

forward_monospace_values(ty) ==
    [ty EXCEPT
        !.groups["monospace_inline"] = use_fallback(@, ty.groups["monospace"]),
        !.groups["monospace_block"] = use_fallback(@, ty.groups["monospace"])]

\* What follows the validation of the typography.
AfterTypography == IF doc.root = "BrandTypography" THEN "done" ELSE "brand_model"

\* The fields of the groups are validated.
TypographyFields ==
    /\ pc = "typography"
    /\ IF doc.typography.none
       THEN /\ pc' = AfterTypography
            /\ UNCHANGED <<err, typography>>
       ELSE LET e == ValidationOutcome(FieldErrors(doc.typography))
            IN  IF e # {}
                THEN /\ pc' = "failed"
                     /\ err' = Errors(e, "typography")
                     /\ UNCHANGED typography
                ELSE /\ pc' = "typography_model"
                     /\ typography' =
                            [none |-> FALSE,
                             groups |-> [g \in GroupSet |->
                                            ValidGroup(doc.typography.groups[g])]]
                     /\ UNCHANGED err
    /\ UNCHANGED <<doc, palette, todo, theme, font>>

\* The model validator of BrandTypography.
TypographyModel ==
    /\ pc = "typography_model"
    /\ typography' = forward_monospace_values(typography)
    /\ pc' = AfterTypography
    /\ UNCHANGED <<err, doc, palette, todo, theme, font>>

(***************************************************************************)
(* __init__.py: Brand.resolve_typography_colors                            *)
(***************************************************************************)
ColorFieldNames == <<"color", "background_color">>

\* The (group, field) pairs, in the order the two loops visit them.
ColorFieldRefs ==
    [i \in 1..(2 * Len(GroupNames)) |->
        <<GroupNames[((i - 1) \div 2) + 1], ColorFieldNames[((i - 1) % 2) + 1]>>]

\* The two loops from pair i on: the typography as rewritten, and the error
\* raised, if any.
RECURSIVE ResolveColorFields(_, _, _)
ResolveColorFields(ty, color_defs, i) ==
    IF i > Len(ColorFieldRefs) THEN [raised |-> "none", ty |-> ty]
    ELSE LET g == ColorFieldRefs[i][1]
             x == ColorFieldRefs[i][2]
             node == ty.groups[g]
             value == node.f[x]
         IN  IF node.none \/ ~DeclaresColor(g)
             THEN ResolveColorFields(ty, color_defs, i + 1)
             ELSE IF value = NoneVal \/ ~isinstance_str(value)
             THEN ResolveColorFields(ty, color_defs, i + 1)
             ELSE IF value.s \notin DOMAIN color_defs
             THEN IF value.s \in ThemeSlotSet
                  THEN [raised |-> "UndefinedThemeReferenceError", ty |-> ty]
                  ELSE ResolveColorFields(ty, color_defs, i + 1)
             ELSE ResolveColorFields(
                      [ty EXCEPT !.groups[g].f[x] = PyStr(color_defs[value.s])],
                      color_defs, i + 1)

\* The resolved namespace of the Brand's colour, empty without one.
BrandColorDefs ==
    IF doc.color_none THEN [ok |-> TRUE, d |-> EmptyDict]
    ELSE _color_defs(palette, theme, TRUE)

resolve_typography_colors ==
    /\ pc = "brand_model"
    /\ IF typography.none
       THEN /\ pc' = "done"
            /\ UNCHANGED <<err, typography>>
       ELSE IF ~BrandColorDefs.ok
       THEN /\ pc' = "failed"
            /\ err' = Error("InternalFault", "brand")
            /\ UNCHANGED typography
       ELSE LET r == ResolveColorFields(typography, BrandColorDefs.d, 1)
            IN  /\ typography' = r.ty
                /\ IF r.raised = "none"
                   THEN pc' = "done" /\ UNCHANGED err
                   ELSE pc' = "failed" /\ err' = Error(r.raised, "brand")
    /\ UNCHANGED <<doc, palette, todo, theme, font>>

(***************************************************************************)
(* typography.py: the font declarations.  A source string is kept as its   *)
(* pieces: the words between the separators "/" and ".", and the           *)
(* separators themselves.  Text that goes into a URL is kept as tokens: a  *)
(* run of unreserved characters, or one reserved character.                *)
(***************************************************************************)
FontFormats ==
    [e \in {".otc", ".ttc", ".eot", ".otf", ".ttf", ".svg", ".svgz", ".woff", ".woff2"} |->
        CASE e \in {".otc", ".ttc"} -> "collection"
          [] e = ".eot" -> "embedded-opentype"
          [] e = ".otf" -> "opentype"
          [] e = ".ttf" -> "truetype"
          [] e \in {".svg", ".svgz"} -> "svg"
          [] e = ".woff" -> "woff"
          [] e = ".woff2" -> "woff2"]

\* The index of the last piece of path equal to c, 0 when there is none.
LastIndexOf(path, c) ==
    LET at == {i \in 1..Len(path) : path[i] = c}
    IN  IF at = {} THEN 0 ELSE CHOOSE i \in at : \A j \in at : j <= i

\* Path(value).suffix: the last component's text from its last dot on,
\* unless that dot starts or ends the component.
PathSuffix(path) ==
    LET slash == LastIndexOf(path, "/")
        name == SubSeq(path, slash + 1, Len(path))
        dot == LastIndexOf(name, ".")
    IN  IF dot > 1 /\ dot < Len(name) THEN "." \o name[dot + 1] ELSE ""

SourceIs(source, word) == source.t = "str" /\ source.path = <<word>>

\* brand_typography_font_discriminator on a declaration not yet tagged.
brand_typography_font_discriminator(x) ==
    LET value == x.source
    IN  IF value.t # "str" THEN Raised("UnsupportedFontSourceError")
        ELSE IF SourceIs(value, "google") THEN Returned(PyStr("google"))
        ELSE IF SourceIs(value, "bunny") THEN Returned(PyStr("bunny"))
        ELSE IF PathSuffix(value.path) # "" THEN Returned(PyStr("file"))
        ELSE Raised("UnsupportedFontSourceError")

\* validate_source with the extension compared in lower case.
validate_source_AnyCase(value) ==
    LET lower == IF PathSuffix(value.path) = ".TTF" THEN ".ttf" ELSE PathSuffix(value.path)
    IN  IF lower = "" THEN Raised("UnsupportedFontFileFormatError")
        ELSE IF lower \notin DOMAIN FontFormats
        THEN Raised("UnsupportedFontFileFormatError")
        ELSE Returned(value)

\* BrandTypographyFontFile.validate_source
validate_source(value) ==
    IF PathSuffix(value.path) = "" THEN Raised("UnsupportedFontFileFormatError")
    ELSE IF PathSuffix(value.path) \notin DOMAIN FontFormats
    THEN Raised("UnsupportedFontFileFormatError")
    ELSE Returned(value)

\* The first exception validate_font_weight raises on the items from i on.
RECURSIVE FirstRaised(_, _)
FirstRaised(items, i) ==
    IF i > Len(items) THEN "none"
    ELSE IF validate_font_weight(items[i]).raised # "none"
    THEN validate_font_weight(items[i]).raised
    ELSE FirstRaised(items, i + 1)

\* BrandTypographyGoogleFontsApi.validate_weight and
\* BrandTypographyFontFile.validate_weight: a list item by item, a scalar as
\* it is.  A weight is [given, list, items], a scalar being its one item.
validate_weight(value) ==
    IF FirstRaised(value.items, 1) # "none"
    THEN [raised |-> FirstRaised(value.items, 1), val |-> value]
    ELSE [raised |-> "none",
          val |-> [value EXCEPT !.items =
                      [i \in 1..Len(value.items) |->
                          validate_font_weight(value.items[i]).val]]]

List(items) == [given |-> TRUE, list |-> TRUE, items |-> items]
Scalar(v) == [given |-> TRUE, list |-> FALSE, items |-> <<v>>]
NotGiven == [given |-> FALSE, list |-> FALSE, items |-> <<>>]

\* No declaration validated yet.
NoFont ==
    [tag |-> "", source |-> [t |-> "NoneType", path |-> <<>>], family |-> <<>>,
     weight |-> NotGiven, style |-> NotGiven, version |-> 0, display |-> "auto",
     url |-> "", family_param |-> <<>>, import_url |-> ""]

\* The defaults of the hosted declarations.
DefaultWeight == List(<<PyInt(400), PyInt(700)>>)
DefaultStyle == List(<<"normal", "italic">>)
DefaultVersion(tag) == IF tag = "bunny" THEN 1 ELSE 2
DefaultUrl(tag) ==
    IF tag = "bunny" THEN "https://fonts.bunny.net/" ELSE "https://fonts.googleapis.com/"

\* sorted() on a list of integers: the least item first, then the rest.
RECURSIVE SortInts(_)
SortInts(s) ==
    IF s = <<>> THEN <<>>
    ELSE LET m == CHOOSE i \in 1..Len(s) : \A j \in 1..Len(s) : s[i] <= s[j]
         IN  <<s[m]>> \o SortInts(SubSeq(s, 1, m - 1) \o SubSeq(s, m + 1, Len(s)))

\* The place of a weight among the weights of its own type: an integer by
\* its value, a keyword by its spelling ("bold" < "normal").
WeightKey(w) == IF w.t = "int" THEN w.n ELSE IF w.s = "bold" THEN 0 ELSE 1

\* sorted(weight): str(w) of each weight in ascending order; comparing a
\* str with an int raises TypeError.
SortedWeights(items) ==
    IF Cardinality({items[i].t : i \in 1..Len(items)}) > 1 THEN Raised("TypeError")
    ELSE LET keys == SortInts([i \in 1..Len(items) |-> WeightKey(items[i])])
             isint == \A i \in 1..Len(items) : items[i].t = "int"
         IN  [raised |-> "none",
              val |-> [i \in 1..Len(keys) |->
                          IF isint THEN ToString(keys[i])
                          ELSE IF keys[i] = 0 THEN "bold" ELSE "normal"]]

\* sorted(style_map[s] for s in sorted(style)): normal is 0 (v1: ""),
\* italic is 1 (v1: "i").
SortedItal(items) ==
    SortInts([i \in 1..Len(items) |-> IF items[i] = "normal" THEN 0 ELSE 1])

\* The tokens of seq[i], seq[i+1], ... joined by the token sep.
RECURSIVE JoinFrom(_, _, _)
JoinFrom(seq, sep, i) ==
    IF i > Len(seq) THEN <<>>
    ELSE IF i = Len(seq) THEN seq[i]
    ELSE seq[i] \o <<sep>> \o JoinFrom(seq, sep, i + 1)

\* itertools.product(a, b): the pairs <<a[i], b[j]>>, the first factor
\* outermost.
product(a, b) ==
    [k \in 1..(Len(a) * Len(b)) |->
        <<a[((k - 1) \div Len(b)) + 1], b[((k - 1) % Len(b)) + 1]>>]

\* f"{w}{i}" and f"{i},{w}", as tokens.
V1Pair(w, i) == <<w \o (IF i = 0 THEN "" ELSE "i")>>
V2Pair(i, w) == <<ToString(i), ",", w>>

\* quote_plus of one token.
QuoteToken(tok) ==
    CASE tok = " " -> "+"
      [] tok = ":" -> "%3A"
      [] tok = "," -> "%2C"
      [] tok = "@" -> "%40"
      [] tok = ";" -> "%3B"
      [] OTHER -> tok

RECURSIVE QuotePlus(_)
QuotePlus(toks) ==
    IF toks = <<>> THEN "" ELSE QuoteToken(Head(toks)) \o QuotePlus(Tail(toks))

\* urlencode({"family": ..., "display": ...})
urlencode(family, display) ==
    "family=" \o QuotePlus(family) \o "&display=" \o display

\* _import_url_v1: the family parameter and the URL.
_import_url_v1(f) ==
    LET weight == SortedWeights(f.weight.items)
        ital == SortedItal(f.style.items)
        values ==
            IF Len(weight.val) > 0 /\ Len(ital) > 0
            THEN [k \in 1..(Len(weight.val) * Len(ital)) |->
                    V1Pair(product(weight.val, ital)[k][1], product(weight.val, ital)[k][2])]
            ELSE IF Len(weight.val) > 0
            THEN [i \in 1..Len(weight.val) |-> <<weight.val[i]>>]
            ELSE [i \in 1..Len(ital) |-> <<IF ital[i] = 0 THEN "regular" ELSE "italic">>]
        family_values ==
            IF Len(values) = 0 THEN <<>> ELSE <<":">> \o JoinFrom(values, ",", 1)
    IN  IF weight.raised # "none" THEN [raised |-> weight.raised, family |-> <<>>, url |-> ""]
        ELSE [raised |-> "none",
              family |-> f.family \o family_values,
              url |-> f.url \o "css?" \o urlencode(f.family \o family_values, f.display)]

\* _import_url_v2: the family parameter and the URL.
_import_url_v2(f) ==
    LET weight == SortedWeights(f.weight.items)
        ital == SortedItal(f.style.items)
        values ==
            IF Len(weight.val) > 0 /\ Len(ital) > 0
            THEN [k \in 1..(Len(ital) * Len(weight.val)) |->
                    V2Pair(product(ital, weight.val)[k][1], product(ital, weight.val)[k][2])]
            ELSE IF Len(weight.val) > 0
            THEN [i \in 1..Len(weight.val) |-> <<weight.val[i]>>]
            ELSE [i \in 1..Len(ital) |-> <<ToString(ital[i])>>]
        axis ==
            IF Len(weight.val) > 0 /\ Len(ital) > 0 THEN <<"ital", ",", "wght">>
            ELSE IF Len(weight.val) > 0 THEN <<"wght">>
            ELSE IF Len(ital) > 0 THEN <<"ital">>
            ELSE <<>>
        axis_range == <<":">> \o axis \o <<"@">> \o JoinFrom(values, ";", 1)
    IN  IF weight.raised # "none" THEN [raised |-> weight.raised, family |-> <<>>, url |-> ""]
        ELSE [raised |-> "none",
              family |-> f.family \o axis_range,
              url |-> f.url \o "css2?" \o urlencode(f.family \o axis_range, f.display)]

import_url(f) == IF f.version = 1 THEN _import_url_v1(f) ELSE _import_url_v2(f)

\* The discriminator picks the variant of the declaration.
FontDiscriminate ==
    /\ pc = "font"
    /\ LET tag == brand_typography_font_discriminator(doc.font)
       IN  IF tag.raised # "none"
           THEN /\ pc' = "failed"
                /\ err' = Error(tag.raised, "fonts")
                /\ UNCHANGED font
           ELSE /\ pc' = "font_fields"
                /\ font' = [font EXCEPT !.tag = tag.val.s]
                /\ UNCHANGED err
    /\ UNCHANGED <<doc, palette, todo, theme, typography>>

\* BrandTypographyFontGoogle and BrandTypographyFontBunny: the weight given
\* is validated; what is not given takes its default.
FontHostedFields ==
    /\ pc = "font_fields"
    /\ font.tag \in {"google", "bunny"}
    /\ LET w == validate_weight(doc.font.weight)
       IN  IF doc.font.weight.given /\ w.raised # "none"
           THEN /\ pc' = "failed"
                /\ err' = Error(w.raised, "weight")
                /\ UNCHANGED font
           ELSE /\ pc' = "font_valid"
                /\ font' = [font EXCEPT
                      !.source = doc.font.source,
                      !.family = doc.font.family,
                      !.weight = IF doc.font.weight.given THEN w.val ELSE DefaultWeight,
                      !.style = IF doc.font.style.given THEN doc.font.style ELSE DefaultStyle,
                      !.version = IF doc.font.version = 0 THEN DefaultVersion(font.tag)
                                  ELSE doc.font.version,
                      !.url = DefaultUrl(font.tag)]
                /\ UNCHANGED err
    /\ UNCHANGED <<doc, palette, todo, theme, typography>>

\* BrandTypographyFontFile: the weight given and the source are validated.
\* The ValueErrors of the fields are collected; any other exception leaves
\* the validation as it is raised.
FontFileFields ==
    /\ pc = "font_fields"
    /\ font.tag = "file"
    /\ LET w == IF doc.font.weight.given THEN validate_weight(doc.font.weight).raised
                ELSE "none"
           s == validate_source(doc.font.source).raised
           e == ValidationOutcome({s, w} \ {"none"})
       IN  IF e # {}
           THEN /\ pc' = "failed"
                /\ err' = Errors(e, "file")
                /\ UNCHANGED font
           ELSE /\ pc' = "done"
                /\ font' = [font EXCEPT
                      !.source = doc.font.source,
                      !.family = doc.font.family,
                      !.weight = IF doc.font.weight.given
                                 THEN validate_weight(doc.font.weight).val
                                 ELSE Scalar(PyStr("normal")),
                      !.style = IF doc.font.style.given THEN doc.font.style
                                ELSE Scalar("normal")]
                /\ UNCHANGED err
    /\ UNCHANGED <<doc, palette, todo, theme, typography>>

\* BrandTypographyGoogleFontsApi.import_url, called on a validated hosted
\* declaration.
FontImportUrl ==
    /\ pc = "font_valid"
    /\ LET r == import_url(font)
       IN  IF r.raised # "none"
           THEN /\ pc' = "failed"
                /\ err' = Error(r.raised, "import_url")
                /\ UNCHANGED font
           ELSE /\ pc' = "done"
                /\ font' = [font EXCEPT !.family_param = r.family, !.import_url = r.url]
                /\ UNCHANGED err
    /\ UNCHANGED <<doc, palette, todo, theme, typography>>

Document(root, color_none, p, t, ty) ==
    [root |-> root, color_none |-> color_none, palette |-> p, theme |-> t,
     typography |-> ty]

(***************************************************************************)
(* The documents drawn.                                                    *)
(***************************************************************************)
PaletteValues == PaletteNames \cup Literals \cup {"secondary"}

NoPalette == [none |-> TRUE, d |-> EmptyDict]

Palettes(names, values) ==
    {NoPalette} \cup
    {[none |-> FALSE, d |-> f] : f \in UNION {[K -> values] : K \in SUBSET names}}

\* A group with the fields of record f given and the others not.
GroupWith(f) ==
    [none |-> FALSE, f |-> [x \in GroupFields |-> IF x \in DOMAIN f THEN f[x] ELSE Absent]]

\* The documents of a Brand: a small colour section, or none, and the
\* colours of the headings and of the links.
BrandPalettes == Palettes({"purple", "primary"}, {"#6339E0", "purple", "secondary"})

BrandThemes ==
    {[s \in ThemeSlotSet |-> IF s \in AuthoredSlots THEN f[s] ELSE None] :
        f \in [AuthoredSlots -> {None, "purple", "primary", "#6339E0"}]}

TypographyColors == {Absent, PyStr("purple"), PyStr("primary"), PyStr("steelblue")}

BrandTypographies ==
    {NoTypography} \cup
    {[none |-> FALSE,
      groups |-> [g \in GroupSet |->
                    IF g = "headings" THEN h ELSE IF g = "link" THEN l ELSE NoGroup]] :
        h \in {NoGroup} \cup
              {GroupWith([color |-> c, background_color |-> b]) :
                   c \in TypographyColors, b \in TypographyColors},
        l \in {NoGroup} \cup {GroupWith([color |-> c]) : c \in TypographyColors}}

\* The documents of a BrandTypography: the monospace groups.
MonospaceGroups ==
    {NoGroup} \cup
    {GroupWith([family |-> a, style |-> b, weight |-> c, size |-> d]) :
        a \in {Absent, PyStr("Fira Code")},
        b \in {Absent, PyStr("italic")},
        c \in {Absent, NoneVal, PyStr("bold"), PyStr("thin"), PyInt(150)},
        d \in {Absent, PyStr("0.9em")}}

DependentGroups ==
    {NoGroup} \cup
    {GroupWith([family |-> a, style |-> b, weight |-> c, size |-> d, color |-> e]) :
        a \in {Absent, PyStr("Custom")},
        b \in {Absent, PyStr("normal")},
        c \in {Absent, PyInt(700)},
        d \in {Absent, PyStr("1em")},
        e \in {Absent, PyStr("red")}}

MonospaceTypographies ==
    {[none |-> FALSE,
      groups |-> [g \in GroupSet |->
                    CASE g = "monospace" -> m
                      [] g = "monospace_inline" -> i
                      [] g = "monospace_block" -> b
                      [] OTHER -> NoGroup]] :
        m \in MonospaceGroups, i \in DependentGroups, b \in DependentGroups}

InitBrand ==
    /\ err = NoError
    /\ \E c \in BOOLEAN, p \in BrandPalettes, t \in BrandThemes, ty \in BrandTypographies :
         /\ c => (p = NoPalette /\ t = EmptyTheme)
         /\ doc = Document("Brand", c, p, t, ty)
         /\ palette = p
         /\ theme = t
         /\ pc = IF c THEN "typography" ELSE "palette"
    /\ todo = {}
    /\ typography = NoTypography
    /\ font = NoFont

NextBrand ==
    \/ PaletteCheck
    \/ PaletteResolveKey
    \/ PaletteReturn
    \/ resolve_palette_values
    \/ TypographyFields
    \/ TypographyModel
    \/ resolve_typography_colors

Spec == InitBrand /\ [][NextBrand]_vars

InitTypography ==
    /\ pc = "typography"
    /\ err = NoError
    /\ \E ty \in MonospaceTypographies :
         doc = Document("BrandTypography", TRUE, NoPalette, EmptyTheme, ty)
    /\ palette = NoPalette
    /\ theme = EmptyTheme
    /\ todo = {}
    /\ typography = NoTypography
    /\ font = NoFont

NextTypography ==
    \/ TypographyFields
    \/ TypographyModel

SpecTypography == InitTypography /\ [][NextTypography]_vars

\* The font declarations drawn.
MaxListLen == 2

StrSource(path) == [t |-> "str", path |-> path]

HostedSources == {StrSource(<<"google">>), StrSource(<<"bunny">>)}

OtherSources ==
    {StrSource(<<"fonts", "/", "Foo", ".", "ttf">>),
     StrSource(<<"Foo", ".", "TTF">>),
     StrSource(<<"Foo", ".", "xyz">>),
     StrSource(<<"Foo", ".", "eot">>),
     StrSource(<<"not-a-font">>),
     StrSource(<<".", "ttf">>),
     StrSource(<<"fonts", ".", "d", "/", "Foo">>),
     [t |-> "NoneType", path |-> <<>>],
     [t |-> "int", path |-> <<>>]}

Infinity == [t |-> "float", s |-> "inf", n |-> 0]

ListWeightInputs ==
    {PyInt(400), PyInt(700), PyStr("bold"), PyStr("semi-bold"), PyInt(150)}

ScalarWeightInputs ==
    ListWeightInputs \cup
    {PyStr("normal"), PyStr("ultra-bold"), PyStr("400"), PyStr("heavy"),
     PyInt(0), PyInt(1000), PyFloat(4005), Infinity, NoneVal}

SeqsUpTo(S, n) == UNION {[1..k -> S] : k \in 0..n}

WeightsDrawn ==
    {NotGiven} \cup {Scalar(v) : v \in ScalarWeightInputs}
        \cup {List(s) : s \in SeqsUpTo(ListWeightInputs, MaxListLen)}

StylesDrawn ==
    {NotGiven} \cup {Scalar(v) : v \in {"normal", "italic"}}
        \cup {List(s) : s \in SeqsUpTo({"normal", "italic"}, MaxListLen)}

Families == {<<"Roboto">>, <<"Open", " ", "Sans">>}

\* A version of 0 stands for a declaration that gives none.
Declarations ==
    {[source |-> s, family |-> f, weight |-> w, style |-> st, version |-> v,
      display |-> "auto"] :
        s \in HostedSources, f \in Families, w \in WeightsDrawn, st \in StylesDrawn,
        v \in {0, 1, 2}}
    \cup
    {[source |-> s, family |-> <<"Foo">>, weight |-> w, style |-> NotGiven,
      version |-> 0, display |-> "auto"] :
        s \in OtherSources,
        w \in {NotGiven, Scalar(PyStr("bold")), Scalar(PyInt(150)), Scalar(NoneVal)}}

InitFont ==
    /\ pc = "font"
    /\ err = NoError
    /\ \E d \in Declarations : doc = [root |-> "Font", font |-> d]
    /\ palette = NoPalette
    /\ theme = EmptyTheme
    /\ todo = {}
    /\ typography = NoTypography
    /\ font = NoFont

NextFont ==
    \/ FontDiscriminate
    \/ FontHostedFields
    \/ FontFileFields
    \/ FontImportUrl

SpecFont == InitFont /\ [][NextFont]_vars

ThemeValues == {None} \cup PaletteNames \cup AuthoredSlots \cup Literals

Themes ==
    {[s \in ThemeSlotSet |-> IF s \in AuthoredSlots THEN f[s] ELSE None] :
        f \in [AuthoredSlots -> ThemeValues]}

InitColor ==
    /\ pc = "palette"
    /\ err = NoError
    /\ \E p \in Palettes(PaletteNames, PaletteValues), t \in Themes :
         /\ doc = Document("BrandColor", FALSE, p, t, NoTypography)
         /\ palette = p
         /\ theme = t
    /\ todo = {}
    /\ typography = NoTypography
    /\ font = NoFont

NextColor ==
    \/ PaletteCheck
    \/ PaletteResolveKey
    \/ PaletteReturn
    \/ resolve_palette_values

SpecColor == InitColor /\ [][NextColor]_vars

(***************************************************************************)
(* Assignments to a validated Brand.  BrandColor and Brand both set         *)
(* validate_assignment: an assignment to a field validates the new value   *)
(* with the validators of that field and then runs the model validators of *)
(* the record that owns the field, and of no other record.  An assignment  *)
(* is one call: one step.  err holds what the last call raised.            *)
(***************************************************************************)
\* The palette validator on a new value: _create_brand_palette as one call.
ValidatedPalette(v) ==
    IF v.none THEN [raised |-> "none", palette |-> v]
    ELSE IF check_circular_references(v.d)
    THEN [raised |-> "CircularReferenceError", palette |-> v]
    ELSE LET r == ReplaceDict(v.d, DOMAIN v.d)
         IN  [raised |-> IF r.ok THEN "none" ELSE "InternalFault",
              palette |-> [none |-> FALSE, d |-> r.d]]

\* resolve_palette_values on a record with palette p and theme slots t.
RevalidatedTheme(p, t) == ReplaceSlots(t, _color_defs(p, t, FALSE).d, 1)

\* The values the assignments draw.
AssignedPalettes == Palettes({"purple"}, {"#6339E0", "purple", "secondary"})

AssignedSlotValues == {None, "purple", "primary", "#6339E0"}

\* The themes of the records drawn whole: primary alone is set.
AssignedThemes ==
    {[s \in ThemeSlotSet |-> IF s = "primary" THEN v ELSE None] :
        v \in AssignedSlotValues}

BrandReady == pc = "done" /\ doc.root = "Brand" /\ ~doc.color_none

\* The model validator of BrandColor failed after the new value was set:
\* the record holds what it held before, or what had been written.
ColorLeftAs(p, t) ==
    \/ UNCHANGED <<palette, theme>>
    \/ palette' = p /\ theme' = t

\* brand.color.palette = v
AssignPalette ==
    /\ BrandReady
    /\ \E v \in AssignedPalettes :
         LET p == ValidatedPalette(v)
             r == RevalidatedTheme(p.palette, theme)
         IN  IF p.raised # "none"
             THEN /\ err' = Error(p.raised, "palette")
                  /\ UNCHANGED <<palette, theme>>
             ELSE IF ~r.ok
             THEN /\ err' = Error("InternalFault", "color")
                  /\ ColorLeftAs(p.palette, r.t)
             ELSE /\ err' = NoError
                  /\ palette' = p.palette
                  /\ theme' = r.t
    /\ UNCHANGED <<pc, doc, todo, typography, font>>

\* brand.color.<slot> = v
AssignThemeSlot ==
    /\ BrandReady
    /\ \E s \in AuthoredSlots, v \in AssignedSlotValues :
         LET r == RevalidatedTheme(palette, [theme EXCEPT ![s] = v])
         IN  IF ~r.ok
             THEN /\ err' = Error("InternalFault", "color")
                  /\ ColorLeftAs(palette, r.t)
             ELSE /\ err' = NoError
                  /\ theme' = r.t
                  /\ UNCHANGED palette
    /\ UNCHANGED <<pc, doc, todo, typography, font>>

\* brand.color = BrandColor(palette=v, **t): the new record is validated,
\* then the model validator of Brand, resolve_typography_colors, runs again.
AssignColor ==
    /\ BrandReady
    /\ \E v \in AssignedPalettes, t \in AssignedThemes :
         LET p == ValidatedPalette(v)
             r == RevalidatedTheme(p.palette, t)
             color_defs == _color_defs(p.palette, r.t, TRUE)
             ty == ResolveColorFields(typography, color_defs.d, 1)
         IN  IF p.raised # "none" \/ ~r.ok
             THEN /\ err' = IF p.raised # "none" THEN Error(p.raised, "palette")
                            ELSE Error("InternalFault", "color")
                  /\ UNCHANGED <<palette, theme, typography>>
             ELSE IF typography.none
             THEN /\ err' = NoError
                  /\ palette' = p.palette
                  /\ theme' = r.t
                  /\ UNCHANGED typography
             ELSE IF ~color_defs.ok
             THEN /\ err' = Error("InternalFault", "brand")
                  /\ ColorLeftAs(p.palette, r.t)
                  /\ UNCHANGED typography
             ELSE /\ typography' = ty.ty
                  /\ IF ty.raised = "none"
                     THEN /\ err' = NoError
                          /\ palette' = p.palette
                          /\ theme' = r.t
                     ELSE /\ err' = Error(ty.raised, "brand")
                          /\ ColorLeftAs(p.palette, r.t)
    /\ UNCHANGED <<pc, doc, todo, font>>

\* The Brand documents the assignments are made to.
AssignTypographies ==
    {NoTypography} \cup
    {[none |-> FALSE,
      groups |-> [g \in GroupSet |-> IF g = "headings" THEN h ELSE NoGroup]] :
        h \in {GroupWith([color |-> c, background_color |-> b]) :
                   c \in TypographyColors \ {Absent},
                   b \in {Absent, PyStr("purple")}}}

InitAssign ==
    /\ pc = "palette"
    /\ err = NoError
    /\ \E p \in AssignedPalettes, t \in AssignedThemes, ty \in AssignTypographies :
         /\ doc = Document("Brand", FALSE, p, t, ty)
         /\ palette = p
         /\ theme = t
    /\ todo = {}
    /\ typography = NoTypography
    /\ font = NoFont

NextAssign ==
    \/ NextBrand
    \/ AssignPalette
    \/ AssignThemeSlot
    \/ AssignColor

SpecAssign == InitAssign /\ [][NextAssign]_vars

\* The colour records drawn for the questions of termination: every theme,
\* over the palettes of at most MaxChainKeys keys.
MaxChainKeys == 2

ChainPaletteNames ==
    {AllPaletteNames[i] : i \in 1..(IF MaxChainKeys < 4 THEN MaxChainKeys ELSE 4)}

InitColorLive ==
    /\ pc = "palette"
    /\ err = NoError
    /\ \E p \in Palettes(ChainPaletteNames, PaletteValues), t \in Themes :
         /\ doc = Document("BrandColor", FALSE, p, t, NoTypography)
         /\ palette = p
         /\ theme = t
    /\ todo = {}
    /\ typography = NoTypography
    /\ font = NoFont

\* The validators of a BrandColor run one after the other, each to its end:
\* a step that can be taken is taken.
SpecColorLive == InitColorLive /\ [][NextColor]_vars /\ WF_vars(NextColor)

(***************************************************************************)
(* Claims about the colour namespace, checked under SpecColor.             *)
(***************************************************************************)

\* The key reached from k after n references, or None once a value that is
\* no key has been reached.
RECURSIVE Walk(_, _, _)
Walk(d, k, n) ==
    IF n = 0 THEN k
    ELSE IF k \in DOMAIN d /\ d[k] \in DOMAIN d THEN Walk(d, d[k], n - 1)
    ELSE None

\* Following references from some key returns to that key.
HasReferenceCycle(d) ==
    \E k \in DOMAIN d : \E n \in 1..Cardinality(DOMAIN d) : Walk(d, k, n) = k

\* The values reachable from those of S by following references.
RECURSIVE ReachSet(_, _)
ReachSet(defs, S) ==
    LET S2 == S \cup {defs[k] : k \in S \cap DOMAIN defs}
    IN  IF S2 = S THEN S ELSE ReachSet(defs, S2)

\* The literals a reference chain from v ends in (one, unless the chain
\* runs into a cycle, and then none).
Ultimates(defs, v) == {x \in ReachSet(defs, {v}) : x \notin DOMAIN defs}

PaletteValidated == pc \notin {"palette", "palette_resolve"} /\ err.loc # "palette"

\* C1: once the palette validator has checked an authored palette, it has
\* failed with CircularReferenceError exactly when following references from
\* some key of the authored palette returns to that key (a self-reference
\* included); a palette with no such chain is never failed by the validator.
C1_CircularReferenceRejected ==
    (pc # "palette" /\ ~doc.palette.none) =>
        /\ HasReferenceCycle(doc.palette.d) <=>
               (pc = "failed" /\ err = Error("CircularReferenceError", "palette"))
        /\ ~HasReferenceCycle(doc.palette.d) => err.loc # "palette"

\* A cycle of length three was rejected.
C1_Witness ==
    /\ pc = "failed"
    /\ err = Error("CircularReferenceError", "palette")
    /\ DOMAIN doc.palette.d = {"purple", "blue", "primary"}
    /\ doc.palette.d["purple"] = "blue"
    /\ doc.palette.d["blue"] = "primary"
    /\ doc.palette.d["primary"] = "purple"

\* C2: a validated palette is a fixed point of resolution: no value of it is
\* one of its keys, it passes the cycle check again, and resolving it once
\* more changes nothing; it is also the resolution of the authored palette
\* whatever the order the keys were walked in.
C2_ResolveIdempotent ==
    (PaletteValidated /\ ~palette.none) =>
        /\ \A k \in DOMAIN palette.d : palette.d[k] \notin DOMAIN palette.d
        /\ ~check_circular_references(palette.d)
        /\ ReplaceDict(palette.d, DOMAIN palette.d) = [ok |-> TRUE, d |-> palette.d]
        /\ ReplaceDict(doc.palette.d, DOMAIN doc.palette.d) = [ok |-> TRUE, d |-> palette.d]

\* A chain of two references was resolved, and resolved for good.
C2_Witness ==
    /\ PaletteValidated
    /\ ~palette.none
    /\ DOMAIN doc.palette.d = {"purple", "blue", "primary"}
    /\ doc.palette.d["purple"] = "blue"
    /\ doc.palette.d["blue"] = "primary"
    /\ doc.palette.d["primary"] = "#6339E0"
    /\ palette.d["purple"] = "#6339E0"

\* The namespace the theme slots are resolved in: the resolved palette with
\* the theme slots as authored laid over it.
ThemeNamespace == ColorDefsRaw(palette, doc.theme)

\* C3: in a validated Color record, a theme slot whose authored value is a
\* key of the namespace holds the literal its reference chain ends in, any
\* other slot holds its authored value, no slot holds a key of the
\* namespace, and the palette is still the palette as its own validation
\* left it (entries naming a theme slot are not rewritten).
C3_ThemeResolved ==
    (pc = "done" /\ doc.root = "BrandColor") =>
        /\ \A s \in ThemeSlotSet :
             /\ doc.theme[s] \in DOMAIN ThemeNamespace =>
                    Ultimates(ThemeNamespace, doc.theme[s]) = {theme[s]}
             /\ doc.theme[s] \notin DOMAIN ThemeNamespace => theme[s] = doc.theme[s]
             /\ theme[s] \notin DOMAIN ThemeNamespace
        /\ ~palette.none =>
               palette.d = ReplaceDict(doc.palette.d, DOMAIN doc.palette.d).d
        /\ palette.none = doc.palette.none

\* secondary names primary, primary names a palette key, the key a literal.
C3_Witness ==
    /\ pc = "done"
    /\ doc.root = "BrandColor"
    /\ doc.theme["secondary"] = "primary"
    /\ doc.theme["primary"] = "purple"
    /\ ~doc.palette.none
    /\ "purple" \in DOMAIN doc.palette.d
    /\ doc.palette.d["purple"] = "#6339E0"
    /\ theme["secondary"] = "#6339E0"
    /\ theme["primary"] = "#6339E0"

(***************************************************************************)
(* Claims about the colours of the typography, checked under Spec.         *)
(***************************************************************************)
ColorFields == {"color", "background_color"}

\* The colour the document gives for field x of group g, Absent when it
\* gives none.
AuthoredColor(g, x) ==
    IF doc.typography.none THEN Absent
    ELSE IF doc.typography.groups[g].none \/ ~DeclaresColor(g) THEN Absent
    ELSE doc.typography.groups[g].f[x]

BrandValidated == pc = "done" /\ doc.root = "Brand"

\* C4: once a Brand is validated, every color or background_color of a
\* typography group that names a key of the resolved colour namespace holds
\* the value the namespace gives for that key.
C4_TypographyColorsResolved ==
    BrandValidated =>
        \A g \in GroupSet, x \in ColorFields :
            (AuthoredColor(g, x).t = "str"
                 /\ AuthoredColor(g, x).s \in DOMAIN BrandColorDefs.d) =>
                typography.groups[g].f[x].s = BrandColorDefs.d[AuthoredColor(g, x).s]

\* Some typography colour names a theme slot the namespace does not define.
UndefinedThemeReference ==
    \E g \in GroupSet, x \in ColorFields :
        /\ AuthoredColor(g, x).t = "str"
        /\ AuthoredColor(g, x).s \in ThemeSlotSet
        /\ AuthoredColor(g, x).s \notin DOMAIN BrandColorDefs.d

\* C5: the validation of a Brand fails with UndefinedThemeReferenceError
\* exactly when a typography colour names a theme slot that is not a key of
\* the colour namespace; a colour that names neither a slot nor a key is
\* kept as the literal the document gives.
C5_UndefinedThemeReference ==
    (doc.root = "Brand" /\ pc \in {"done", "failed"} /\ err.loc \in {"", "brand"}
         /\ BrandColorDefs.ok) =>
        /\ UndefinedThemeReference <=>
               (pc = "failed" /\ err = Error("UndefinedThemeReferenceError", "brand"))
        /\ pc = "done" =>
               \A g \in GroupSet, x \in ColorFields :
                   (AuthoredColor(g, x).t = "str"
                        /\ AuthoredColor(g, x).s \notin ThemeSlotSet
                        /\ AuthoredColor(g, x).s \notin DOMAIN BrandColorDefs.d) =>
                       typography.groups[g].f[x].s = AuthoredColor(g, x).s

(***************************************************************************)
(* Claims about the cascade of the monospace group, checked under          *)
(* SpecTypography.                                                         *)
(***************************************************************************)
Dependents == {"monospace_inline", "monospace_block"}

\* C6: the model validator of the typography leaves a dependent group that
\* is present together with monospace with, for each of family, style,
\* weight and size, its own value when that is set and the value of
\* monospace otherwise; its other fields, the groups that are not
\* dependents, and every group when the dependent or monospace is absent,
\* are as they were.
C6_MonospaceCascade ==
    [][pc = "typography_model" =>
          \A g \in GroupSet :
              IF g \in Dependents /\ ~typography.groups[g].none
                     /\ ~typography.groups["monospace"].none
              THEN /\ ~typography'.groups[g].none
                   /\ \A x \in GroupFields :
                          typography'.groups[g].f[x] =
                              IF x \in {"family", "style", "weight", "size"}
                                     /\ typography.groups[g].f[x] = NoneVal
                              THEN typography.groups["monospace"].f[x]
                              ELSE typography.groups[g].f[x]
              ELSE typography'.groups[g] = typography.groups[g]]_vars

\* monospace gives a family and a weight keyword, monospace-inline gives
\* neither, monospace-block gives its own family and a colour.
C6_Witness ==
    /\ pc = "done"
    /\ doc.root = "BrandTypography"
    /\ ~doc.typography.groups["monospace"].none
    /\ doc.typography.groups["monospace"].f["family"] = PyStr("Fira Code")
    /\ doc.typography.groups["monospace"].f["weight"] = PyStr("thin")
    /\ ~doc.typography.groups["monospace_inline"].none
    /\ doc.typography.groups["monospace_inline"].f["family"] = Absent
    /\ doc.typography.groups["monospace_inline"].f["weight"] = Absent
    /\ ~doc.typography.groups["monospace_block"].none
    /\ doc.typography.groups["monospace_block"].f["family"] = PyStr("Custom")
    /\ doc.typography.groups["monospace_block"].f["color"] = PyStr("red")
    /\ typography.groups["monospace_inline"].f["family"] = PyStr("Fira Code")
    /\ typography.groups["monospace_inline"].f["weight"] = PyInt(100)
    /\ typography.groups["monospace_block"].f["family"] = PyStr("Custom")
    /\ typography.groups["monospace_block"].f["color"] = BrandNamedColor("red")

(***************************************************************************)
(* Claims about the font declarations, checked under SpecFont.             *)
(***************************************************************************)
HostedTags == {"google", "bunny"}

WeightNumbers == {100 * k : k \in 1..9}

\* C7: a hosted declaration whose weights are all keyword aliases is
\* accepted, and every weight of a validated hosted declaration is one of
\* the integers 100, 200, ..., 900.
C7_HostedWeightsAreIntegers ==
    (pc \notin {"font", "font_fields"} /\ doc.font.source \in HostedSources) =>
        /\ (\A i \in 1..Len(doc.font.weight.items) :
                /\ doc.font.weight.items[i].t = "str"
                /\ doc.font.weight.items[i].s \in DOMAIN BrandTypographyFontWeightMap) =>
               err.loc # "weight"
        /\ err.loc # "weight" =>
               \A i \in 1..Len(font.weight.items) :
                   /\ font.weight.items[i].t = "int"
                   /\ font.weight.items[i].n \in WeightNumbers

\* The inputs that have an integer value, and that value: an integer, a
\* finite float (truncated), a string of digits.
Coercible(v) ==
    \/ v.t = "int"
    \/ v.t = "float" /\ v.s = ""
    \/ v.t = "str" /\ v.s \in DOMAIN NumericStrings

IntegerOf(v) ==
    CASE v.t = "int" -> v.n
      [] v.t = "float" -> v.n \div 10
      [] OTHER -> NumericStrings[v.s]

KnownKeyword(v) == v.t = "str" /\ v.s \in DOMAIN BrandTypographyFontWeightMap

\* C8: a scalar weight that is not a known keyword is validated to its
\* integer value when it has one and that is a multiple of 100 within
\* [100, 900]; every other such weight, null included, fails with
\* InvalidFontWeightError and nothing else.
C8_InvalidFontWeight ==
    (pc \notin {"font", "font_fields"} /\ doc.font.source \in HostedSources
         /\ doc.font.weight.given /\ ~doc.font.weight.list
         /\ ~KnownKeyword(doc.font.weight.items[1])) =>
        IF Coercible(doc.font.weight.items[1])
               /\ IntegerOf(doc.font.weight.items[1]) \in WeightNumbers
        THEN /\ err.loc # "weight"
             /\ font.weight.items = <<PyInt(IntegerOf(doc.font.weight.items[1]))>>
        ELSE /\ pc = "failed"
             /\ err = Error("InvalidFontWeightError", "weight")

\* The sources by what the declaration says: a hosted identifier, a path
\* with an extension of the table, a path with another extension.
KnownExtension(source) ==
    source.t = "str" /\ PathSuffix(source.path) \in DOMAIN FontFormats

OtherExtension(source) ==
    /\ source.t = "str"
    /\ source \notin HostedSources
    /\ PathSuffix(source.path) # ""
    /\ PathSuffix(source.path) \notin DOMAIN FontFormats

Orders(n) ==
    {p \in [1..n -> 1..n] : \A i, j \in 1..n : p[i] = p[j] => i = j}

AscendingOrder(keys) ==
    CHOOSE p \in Orders(Len(keys)) :
        \A i \in 1..(Len(keys) - 1) : keys[p[i]] <= keys[p[i + 1]]

WeightText(w) == IF w.t = "int" THEN ToString(w.n) ELSE w.s

StyleCode(s) == IF s = "normal" THEN 0 ELSE 1

\* The weights of the declaration, ascending, and the codes of its styles,
\* ascending, as they are written in the URL.
ExpectedWeights ==
    LET W == font.weight.items
        p == AscendingOrder([i \in 1..Len(W) |-> WeightKey(W[i])])
    IN  [i \in 1..Len(W) |-> WeightText(W[p[i]])]

ExpectedStyles ==
    LET S == font.style.items
        p == AscendingOrder([i \in 1..Len(S) |-> StyleCode(S[i])])
    IN  [i \in 1..Len(S) |-> ToString(StyleCode(S[p[i]]))]

ExpectedV2Values ==
    LET W == ExpectedWeights
        S == ExpectedStyles
    IN  IF Len(W) > 0 /\ Len(S) > 0
        THEN [k \in 1..(Len(S) * Len(W)) |->
                <<S[((k - 1) \div Len(W)) + 1], ",", W[((k - 1) % Len(W)) + 1]>>]
        ELSE IF Len(W) > 0 THEN [i \in 1..Len(W) |-> <<W[i]>>]
        ELSE [i \in 1..Len(S) |-> <<S[i]>>]

ExpectedV2Axis ==
    IF Len(font.weight.items) > 0 /\ Len(font.style.items) > 0
    THEN <<"ital", ",", "wght">>
    ELSE IF Len(font.weight.items) > 0 THEN <<"wght">> ELSE <<"ital">>

ExpectedV2Family ==
    font.family \o <<":">> \o ExpectedV2Axis \o <<"@">> \o JoinFrom(ExpectedV2Values, ";", 1)

ImportUrlCalled ==
    /\ pc \in {"done", "failed"}
    /\ err.loc \in {"", "import_url"}
    /\ font.tag \in HostedTags

\* C10: the version 2 import URL of a validated hosted declaration with a
\* weight or a style is the base URL, css2? and the query whose family is
\* the family, ":", the axis, "@" and the values joined by ";": the pairs
\* style,weight in style-major order with both ascending, on the axis
\* ital,wght; the weights alone on wght; the styles alone on ital.
C10_ImportUrlV2 ==
    (ImportUrlCalled /\ font.version = 2
         /\ (font.weight.items # <<>> \/ font.style.items # <<>>)) =>
        /\ pc = "done"
        /\ font.family_param = ExpectedV2Family
        /\ font.import_url =
               font.url \o "css2?family=" \o QuotePlus(ExpectedV2Family)
                   \o "&display=" \o font.display

\* C11: in both grammars, the family parameter of the import URL of a
\* validated hosted declaration whose weight list and style list are both
\* empty is the family name alone: no ":", no axis, no "@".
C11_EmptyListsFamilyOnly ==
    (ImportUrlCalled /\ font.weight.items = <<>> /\ font.style.items = <<>>) =>
        /\ pc = "done"
        /\ font.family_param = font.family
        /\ font.import_url =
               font.url \o (IF font.version = 1 THEN "css?" ELSE "css2?")
                   \o "family=" \o QuotePlus(font.family) \o "&display=" \o font.display

\* The values of a list, each once, in some order.
DistinctItems(items) ==
    LET values == {items[i] : i \in 1..Len(items)}
    IN  CHOOSE s \in [1..Cardinality(values) -> values] :
            \A i, j \in 1..Cardinality(values) : s[i] = s[j] => i = j

\* The declaration with each value of its weights and of its styles once.
WithoutDuplicates(f) ==
    [f EXCEPT !.weight.items = DistinctItems(f.weight.items),
              !.style.items = DistinctItems(f.style.items)]

\* C12: the import URL of a hosted declaration, in either grammar, depends
\* only on the set of its weights and the set of its styles: it is the URL
\* of the declaration that holds each of these values once, whose value
\* list has every combination of a weight and a style once.
C12_SortedDeduplicated ==
    (pc = "done" /\ font.tag \in HostedTags) =>
        font.import_url = import_url(WithoutDuplicates(font)).url

(***************************************************************************)
(* Claims about the order and the end of the colour validation, checked    *)
(* under SpecColor.                                                        *)
(***************************************************************************)
\* C13: a step of the palette validation rewrites a palette value only
\* after the cycle check has succeeded, on a palette without a reference
\* cycle; and when the validation fails with CircularReferenceError the
\* palette holds exactly the values of the document.
C13_CycleCheckBeforeMutation ==
    [][/\ palette' # palette =>
              (pc = "palette_resolve" /\ ~HasReferenceCycle(doc.palette.d))
       /\ (pc' = "failed" /\ err' = Error("CircularReferenceError", "palette")) =>
              palette' = doc.palette]_vars

\* A palette with a cycle and, beside it, a reference that resolution would
\* have replaced by a literal, was rejected untouched.
C13_Witness ==
    /\ pc = "failed"
    /\ err = Error("CircularReferenceError", "palette")
    /\ palette = doc.palette
    /\ \E k \in DOMAIN doc.palette.d :
           /\ doc.palette.d[k] \in DOMAIN doc.palette.d
           /\ doc.palette.d[doc.palette.d[k]] \in Literals

\* Some theme slot of the document starts a reference chain that never
\* leaves the keys of the namespace.
ThemeChainCycles ==
    \E s \in ThemeSlotSet :
        /\ doc.theme[s] \in DOMAIN ThemeNamespace
        /\ Ultimates(ThemeNamespace, doc.theme[s]) = {}

ColorValidationEnded == pc \in {"done", "failed"}

\* C14: the validation of a colour record always ends.  Following the chain
\* of any key of the namespace stops within len(definitions) + 1 steps, and
\* within len(definitions) steps when the chain does not cycle: the cap is
\* not reached on an acyclic chain, and never in the palette, which the
\* cycle check has passed.  A theme slot whose chain cycles ends the
\* validation with the fault signal; a validation that succeeds leaves no
\* theme slot holding a key of the namespace.
C14_ResolutionTerminates ==
    /\ <>ColorValidationEnded
    /\ [](err # Error("InternalFault", "palette"))
    /\ []((ColorValidationEnded /\ err.loc # "palette") =>
            /\ ThemeChainCycles <=>
                   (pc = "failed" /\ err = Error("InternalFault", "color"))
            /\ pc = "done" => \A s \in ThemeSlotSet : theme[s] \notin DOMAIN ThemeNamespace
            /\ \A v \in DOMAIN ThemeNamespace :
                   /\ ResolveValue(ThemeNamespace, v).ok <=>
                          Ultimates(ThemeNamespace, v) # {}
                   /\ Ultimates(ThemeNamespace, v) # {} =>
                          Follow(ThemeNamespace, v, Cardinality(DOMAIN ThemeNamespace)).ok)

\* primary and secondary name each other, beside a palette that passed the
\* cycle check: the validation ended with the fault signal.
C14_Witness ==
    /\ pc = "failed"
    /\ err = Error("InternalFault", "color")
    /\ doc.theme["primary"] = "secondary"
    /\ doc.theme["secondary"] = "primary"
    /\ ~doc.palette.none
    /\ DOMAIN doc.palette.d # {}

(***************************************************************************)
(* Claim about assignments to the colour of a Brand, checked under         *)
(* SpecAssign.                                                             *)
(***************************************************************************)
\* C15: once a Brand is validated, no step (an assignment of the palette,
\* of a theme slot, or of the whole colour record, with the validation it
\* sets off) changes the color or the background_color of a typography
\* group: each keeps the value the initial validation left in it.
C15_TypographyColorsResolvedOnce ==
    [][(pc = "done" /\ doc.root = "Brand") =>
          /\ typography'.none = typography.none
          /\ \A g \in GroupSet, x \in ColorFields :
                 typography'.groups[g].f[x] = typography.groups[g].f[x]]_vars

\* The document had no palette and a heading colour purple, which passed
\* through; a palette that defines purple was assigned since, and accepted.
C15_Witness ==
    /\ pc = "done"
    /\ doc.root = "Brand"
    /\ doc.palette.none
    /\ doc.theme["primary"] = None
    /\ AuthoredColor("headings", "color") = PyStr("purple")
    /\ ~palette.none
    /\ "purple" \in DOMAIN palette.d
    /\ theme["primary"] = "#6339E0"
    /\ err = NoError
    /\ typography.groups["headings"].f["color"].s = "purple"
====
